---- MODULE Spec2Model ----
\* Model of the App component (src/unnamed/part_000) of the audio player:
\* its React state, its event handlers, its effects and the pending calls
\* to the insight service.
\*
\* Granularity.  Every handler runs on the values of the latest render (a
\* handler of a discrete event always belongs to the latest commit), queues
\* its state updates, and the render that follows commits them and runs the
\* effects whose dependencies changed.  One action of the model is one
\* handler (or one continuation of the async function after its await)
\* together with that render and its effects.
EXTENDS Integers, Sequences, FiniteSets, TLC

\* ---------------------------------------------------------------- bounds
MaxTracks == 2
MaxFiles == MaxTracks
MaxPlaylists == 1
MaxRequests == 3

\* ------------------------------------------------------------ input sets
\* Null stands for an absent insight (undefined on a track, null from the
\* service); an attached AIInsight is represented by its mood.
Null == "null"
PlaylistMoods == {"Chill", "Happy"}
ServiceMoods == {"chill", "Happy"}
ServiceOutcomes == ServiceMoods \cup {Null, "throw"}
VolumeInputs == {-20, 140}
TimeInputs == {0, 1}
MetadataDuration == 1

VARIABLES tracks, playerState, smartPlaylists, activeSmartPlaylistId,
          isInsightLoading, requests, requestLog, endedHandler,
          devicePlaying, lastOp, prevOp, watch

vars == <<tracks, playerState, smartPlaylists, activeSmartPlaylistId,
          isInsightLoading, requests, requestLog, endedHandler,
          devicePlaying, lastOp, prevOp, watch>>

\* ------------------------------------------------------- pure operators
toLowerCase(s) ==
  CASE s = "Chill" -> "chill"
    [] s = "Happy" -> "happy"
    [] OTHER -> s

\* x?.toLowerCase(): an absent value stays absent.
optLowerCase(x) == IF x = Null THEN Null ELSE toLowerCase(x)

\* Faulty variant: the moods are compared as written.
matchesMood_CaseSensitive(t, mood) == t.insight = mood

matchesMood(t, mood) == optLowerCase(t.insight) = optLowerCase(mood)

RECURSIVE filterMood(_, _)
filterMood(trs, mood) ==
  IF trs = <<>> THEN <<>>
  ELSE LET t == Head(trs)
           rest == filterMood(Tail(trs), mood)
       IN IF matchesMood(t, mood) THEN <<t>> \o rest ELSE rest

findPlaylist(pls, id) ==
  IF \E i \in DOMAIN pls : pls[i].id = id
  THEN LET i == CHOOSE i \in DOMAIN pls : pls[i].id = id /\ \A j \in 1..(i-1) : pls[j].id # id
       IN {pls[i]}
  ELSE {}

displayedTracksOf(trs, pls, act) ==
  IF act = 0 THEN trs
  ELSE LET found == findPlaylist(pls, act)
       IN IF found = {} THEN trs
          ELSE filterMood(trs, (CHOOSE p \in found : TRUE).mood)

displayedTracks == displayedTracksOf(tracks, smartPlaylists, activeSmartPlaylistId)

\* id of displayedTracks[currentTrackIndex], 0 when there is none (the
\* program's indices start at 0, those of a sequence here at 1)
currentTrackOf(trs, pls, act, ps) ==
  LET view == displayedTracksOf(trs, pls, act)
      i == ps.currentTrackIndex + 1
  IN IF i \in DOMAIN view THEN view[i].id ELSE 0

currentTrack == currentTrackOf(tracks, smartPlaylists, activeSmartPlaylistId, playerState)

\* Faulty variant: scans from the newest track.
firstUnprocessed_Newest(trs) ==
  IF \E i \in DOMAIN trs : trs[i].insight = Null
  THEN CHOOSE i \in DOMAIN trs : trs[i].insight = Null /\ \A j \in (i+1)..Len(trs) : trs[j].insight # Null
  ELSE 0

firstUnprocessed(trs) ==
  IF \E i \in DOMAIN trs : trs[i].insight = Null
  THEN CHOOSE i \in DOMAIN trs : trs[i].insight = Null /\ \A j \in 1..(i-1) : trs[j].insight # Null
  ELSE 0

\* Faulty variant: the outstanding-request flag is not consulted.
shouldRequest_NoFlag(trs, loading) == firstUnprocessed(trs) # 0

shouldRequest(trs, loading) == firstUnprocessed(trs) # 0 /\ ~loading

\* Faulty variant: no upper bound check.
playTrack_NoUpperBound(ps, viewLen, index) ==
  IF index < 0 THEN ps
  ELSE [ps EXCEPT !.currentTrackIndex = index, !.isPlaying = TRUE]

\* Faulty variant: the other fields are not carried over from prev.
playTrack_NoSpread(ps, viewLen, index) ==
  IF index < 0 \/ index >= viewLen THEN ps
  ELSE [isPlaying |-> TRUE, currentTrackIndex |-> index, volume |-> 70,
        currentTime |-> 0, repeatMode |-> "none", isShuffle |-> FALSE]

playTrack(ps, viewLen, index) ==
  IF index < 0 \/ index >= viewLen THEN ps
  ELSE [ps EXCEPT !.currentTrackIndex = index, !.isPlaying = TRUE]

\* Faulty variant: never wraps.
nextIndexOf_NoWrap(cti, rm, viewLen) ==
  IF cti + 1 >= viewLen THEN cti ELSE cti + 1

nextIndexOf(cti, rm, viewLen) ==
  IF cti + 1 >= viewLen THEN (IF rm = "all" THEN 0 ELSE cti) ELSE cti + 1

\* Faulty variant: does not step back from a positive index.
prevIndexOf_NoStep(cti, rm, viewLen) ==
  IF cti - 1 < 0 THEN (IF rm = "all" THEN viewLen - 1 ELSE 0) ELSE cti

prevIndexOf(cti, rm, viewLen) ==
  IF cti - 1 < 0 THEN (IF rm = "all" THEN viewLen - 1 ELSE 0) ELSE cti - 1

nextRepeatMode(rm) ==
  CASE rm = "none" -> "all" [] rm = "all" -> "one" [] OTHER -> "none"

handlerOf(trs, pls, act, ps) ==
  [currentTrackIndex |-> ps.currentTrackIndex,
   repeatMode |-> ps.repeatMode,
   view |-> [i \in DOMAIN displayedTracksOf(trs, pls, act) |-> displayedTracksOf(trs, pls, act)[i].id]]

\* Faulty variant: displayedTracks is missing from the dependency list.
endedDepsChanged_NoView(trs, pls, act, ps) ==
  \/ ps.currentTrackIndex # playerState.currentTrackIndex
  \/ ps.repeatMode # playerState.repeatMode

endedDepsChanged(trs, pls, act, ps) ==
  \/ ps.currentTrackIndex # playerState.currentTrackIndex
  \/ ps.repeatMode # playerState.repeatMode
  \/ trs # tracks \/ pls # smartPlaylists \/ act # activeSmartPlaylistId

\* ------------------------------------------------------------------ Init
\* History.  lastOp names the handler that ran last and the index it was
\* given or read, for the handlers listed in watch (fixed from the start);
\* any other handler leaves NoOp there.  prevOp is the value lastOp had
\* before the last handler ran, kept when watch holds "previous".
\* requestLog lists the track ids of the insight requests in the order they
\* were issued, and is kept when "respond" is watched.
NoOp == [op |-> "other", idx |-> 0]

InitWatching(w) ==
  /\ watch = w
  /\ tracks = <<>>
  /\ playerState = [isPlaying |-> FALSE, currentTrackIndex |-> -1, volume |-> 70,
                    currentTime |-> 0, repeatMode |-> "none", isShuffle |-> FALSE]
  /\ smartPlaylists = <<>>
  /\ activeSmartPlaylistId = 0
  /\ isInsightLoading = FALSE
  /\ requests = <<>>
  /\ requestLog = <<>>
  /\ endedHandler = [currentTrackIndex |-> -1, repeatMode |-> "none", view |-> <<>>]
  /\ devicePlaying = FALSE
  /\ lastOp = NoOp
  /\ prevOp = NoOp

Init == InitWatching({})

\* ------------------------------------------------ render and its effects
\* Faulty variant: tracks is missing from the effect's dependency list.
analyzeRuns_NoTracksDep(trs, tracksSet, ld0) ==
  LET run1 == ld0 # isInsightLoading /\ shouldRequest(trs, ld0)
      run2 == run1 /\ ~ld0 /\ shouldRequest(trs, TRUE)
  IN IF run2 THEN 2 ELSE IF run1 THEN 1 ELSE 0

\* The insight requests the effect of lines 79-92 issues in the render that
\* commits (trs, ld0): a run when tracks was set or isInsightLoading changed,
\* and the re-run that its own setIsInsightLoading(true) causes.
analyzeRuns(trs, tracksSet, ld0) ==
  LET run1 == (tracksSet \/ ld0 # isInsightLoading) /\ shouldRequest(trs, ld0)
      run2 == run1 /\ ~ld0 /\ shouldRequest(trs, TRUE)
  IN IF run2 THEN 2 ELSE IF run1 THEN 1 ELSE 0

\* audio.play(): already playing stays playing; otherwise it starts when a
\* source is loaded and the platform allows it (ok), and rejects if not.
playResult(playing, cur, ok) == playing \/ (cur # 0 /\ ok)

\* Whether audio.play() starts: either outcome, or always a start where the
\* run assumes a device that never refuses ("playStarts" in watch).
playOutcomes == IF "playStarts" \in watch THEN {TRUE} ELSE BOOLEAN

Commit(trs, tracksSet, ps, pls, act, ld0, reqs0, ended, restart, op) ==
  LET runs == analyzeRuns(trs, tracksSet, ld0)
      issued == [k \in 1..runs |-> trs[firstUnprocessed(trs)].id]
      cur == currentTrackOf(trs, pls, act, ps)
      base == IF ended \/ cur # currentTrack THEN FALSE ELSE devicePlaying
      syncDeps == ps.isPlaying # playerState.isPlaying
                  \/ ps.currentTrackIndex # playerState.currentTrackIndex
  IN /\ Len(requestLog) + runs <= MaxRequests
     /\ tracks' = trs
     /\ playerState' = ps
     /\ smartPlaylists' = pls
     /\ activeSmartPlaylistId' = act
     /\ isInsightLoading' = (IF runs > 0 THEN TRUE ELSE ld0)
     /\ requests' = reqs0 \o issued
     /\ requestLog' = (IF "respond" \in watch THEN requestLog \o issued ELSE requestLog)
     /\ endedHandler' = IF endedDepsChanged(trs, pls, act, ps)
                        THEN handlerOf(trs, pls, act, ps) ELSE endedHandler
     /\ \E ok \in playOutcomes :
          devicePlaying' =
            IF syncDeps THEN (IF ps.isPlaying THEN playResult(base, cur, ok) ELSE FALSE)
            ELSE IF restart THEN playResult(base, cur, ok)
            ELSE base
     /\ lastOp' = (IF op.op \in watch THEN op ELSE NoOp)
     /\ prevOp' = (IF "previous" \in watch THEN lastOp ELSE NoOp)
     /\ watch' = watch

\* A commit that touches only PlayerState.
CommitPlayer(ps, ended, restart, op) ==
  Commit(tracks, FALSE, ps, smartPlaylists, activeSmartPlaylistId,
         isInsightLoading, requests, ended, restart, op)

liveHandler == handlerOf(tracks, smartPlaylists, activeSmartPlaylistId, playerState)

\* Faulty variant: with shuffle on, the index is kept.
prevTrack_HonoursShuffle(h, ps) ==
  IF ps.isShuffle THEN playTrack(ps, Len(h.view), h.currentTrackIndex)
  ELSE playTrack(ps, Len(h.view), prevIndexOf(h.currentTrackIndex, h.repeatMode, Len(h.view)))

\* Faulty variant: repeatMode = one is not handled apart.
nextTrack_NoRepeatOne(h, ps) ==
  playTrack(ps, Len(h.view), nextIndexOf(h.currentTrackIndex, h.repeatMode, Len(h.view)))

\* nextTrack as the closure h sees it; the update itself is functional
\* (prev => ...) and applies to the latest PlayerState ps.
nextTrack(h, ps) ==
  IF h.repeatMode = "one" THEN ps
  ELSE playTrack(ps, Len(h.view), nextIndexOf(h.currentTrackIndex, h.repeatMode, Len(h.view)))

prevTrack(h, ps) ==
  playTrack(ps, Len(h.view), prevIndexOf(h.currentTrackIndex, h.repeatMode, Len(h.view)))

\* Faulty variant: the view is not looked at.
togglePlay_NoEmptyCheck(h, ps) ==
  IF h.currentTrackIndex = -1 THEN playTrack(ps, Len(h.view), 0)
  ELSE [ps EXCEPT !.isPlaying = ~ps.isPlaying]

togglePlay(h, ps) ==
  IF h.currentTrackIndex = -1 /\ Len(h.view) > 0 THEN playTrack(ps, Len(h.view), 0)
  ELSE [ps EXCEPT !.isPlaying = ~ps.isPlaying]

\* --------------------------------------------------------------- actions
HandleFileUpload(k) ==
  /\ Len(tracks) + k <= MaxTracks
  /\ LET newTracks == [i \in 1..k |-> [id |-> Len(tracks) + i, insight |-> Null, duration |-> 0]]
         ps == IF playerState.currentTrackIndex = -1 /\ k > 0
               THEN playTrack(playerState, Len(displayedTracks), 0) ELSE playerState
     IN Commit(tracks \o newTracks, TRUE, ps, smartPlaylists, activeSmartPlaylistId,
               isInsightLoading, requests, FALSE, FALSE,
               [op |-> "handleFileUpload", idx |-> k])

\* playTrack called with index i: the track list passes the indices of the
\* view, nextTrack, prevTrack and togglePlay pass computed ones.
SelectTrack(i) ==
  CommitPlayer(playTrack(playerState, Len(displayedTracks), i), FALSE, FALSE,
               [op |-> "playTrack", idx |-> i])

TogglePlay ==
  CommitPlayer(togglePlay(liveHandler, playerState), FALSE, FALSE,
               [op |-> "togglePlay", idx |-> playerState.currentTrackIndex])

NextTrack ==
  CommitPlayer(nextTrack(liveHandler, playerState), FALSE, playerState.repeatMode = "one",
               [op |-> "nextTrack", idx |-> playerState.currentTrackIndex])

PrevTrack ==
  CommitPlayer(prevTrack(liveHandler, playerState), FALSE, FALSE,
               [op |-> "prevTrack", idx |-> playerState.currentTrackIndex])

\* The device's ended event: the subscribed closure runs.
Ended ==
  /\ devicePlaying
  /\ CommitPlayer(nextTrack(endedHandler, playerState), TRUE, endedHandler.repeatMode = "one",
                  [op |-> "ended", idx |-> endedHandler.currentTrackIndex])

UpdateTime(t) ==
  /\ currentTrack # 0
  /\ CommitPlayer([playerState EXCEPT !.currentTime = t], FALSE, FALSE,
                  [op |-> "updateTime", idx |-> playerState.currentTrackIndex])

HandleSeek(t) ==
  CommitPlayer([playerState EXCEPT !.currentTime = t], FALSE, FALSE,
               [op |-> "handleSeek", idx |-> playerState.currentTrackIndex])

HandleVolumeChange(v) ==
  CommitPlayer([playerState EXCEPT !.volume = v], FALSE, FALSE,
               [op |-> "handleVolumeChange", idx |-> playerState.currentTrackIndex])

ToggleShuffle ==
  CommitPlayer([playerState EXCEPT !.isShuffle = ~playerState.isShuffle], FALSE, FALSE,
               [op |-> "toggleShuffle", idx |-> playerState.currentTrackIndex])

CycleRepeatMode ==
  CommitPlayer([playerState EXCEPT !.repeatMode = nextRepeatMode(playerState.repeatMode)],
               FALSE, FALSE,
               [op |-> "cycleRepeatMode", idx |-> playerState.currentTrackIndex])

CreateSmartPlaylist(mood) ==
  /\ Len(smartPlaylists) < MaxPlaylists
  /\ Commit(tracks, FALSE, playerState,
            Append(smartPlaylists, [id |-> Len(smartPlaylists) + 1, mood |-> mood]),
            activeSmartPlaylistId, isInsightLoading, requests, FALSE, FALSE,
            [op |-> "createSmartPlaylist", idx |-> playerState.currentTrackIndex])

SetActiveSmartPlaylistId(id) ==
  Commit(tracks, FALSE, playerState, smartPlaylists, id, isInsightLoading, requests,
         FALSE, FALSE,
         [op |-> "setActiveSmartPlaylistId", idx |-> playerState.currentTrackIndex])

OnLoadedMetadata ==
  /\ currentTrack # 0
  /\ Commit([i \in DOMAIN tracks |->
               IF tracks[i].id = currentTrack
               THEN [tracks[i] EXCEPT !.duration = MetadataDuration] ELSE tracks[i]],
            TRUE, playerState, smartPlaylists, activeSmartPlaylistId,
            isInsightLoading, requests, FALSE, FALSE,
            [op |-> "onLoadedMetadata", idx |-> playerState.currentTrackIndex])

\* The continuation of analyzeUnprocessed after its await, for request r.
\* Faulty variant: the id comparison is missing.
applyInsight_AllTracks(trs, id, insight) ==
  [i \in DOMAIN trs |-> [trs[i] EXCEPT !.insight = insight]]

\* Faulty variant: the track object of the requesting render is written back,
\* with the duration it had then.
applyInsight_StaleTrack(trs, id, insight) ==
  [i \in DOMAIN trs |-> IF trs[i].id = id
                        THEN [trs[i] EXCEPT !.insight = insight, !.duration = 0]
                        ELSE trs[i]]

applyInsight(trs, id, insight) ==
  [i \in DOMAIN trs |-> IF trs[i].id = id THEN [trs[i] EXCEPT !.insight = insight] ELSE trs[i]]

without(reqs, k) == [i \in 1..(Len(reqs) - 1) |-> IF i < k THEN reqs[i] ELSE reqs[i + 1]]

Respond(k, outcome) ==
  LET op == [op |-> "respond", idx |-> requests[k]]
      rest == without(requests, k)
  IN IF outcome = "throw"
     THEN Commit(tracks, FALSE, playerState, smartPlaylists, activeSmartPlaylistId,
                 isInsightLoading, rest, FALSE, FALSE, op)
     ELSE IF outcome = Null
     THEN Commit(tracks, FALSE, playerState, smartPlaylists, activeSmartPlaylistId,
                 FALSE, rest, FALSE, FALSE, op)
     ELSE Commit(applyInsight(tracks, requests[k], outcome), TRUE, playerState,
                 smartPlaylists, activeSmartPlaylistId, FALSE, rest, FALSE, FALSE, op)

Next ==
  \/ \E k \in 0..MaxFiles : HandleFileUpload(k)
  \/ \E i \in -1..MaxTracks : SelectTrack(i)
  \/ TogglePlay
  \/ NextTrack
  \/ PrevTrack
  \/ Ended
  \/ \E t \in TimeInputs : UpdateTime(t)
  \/ \E t \in TimeInputs : HandleSeek(t)
  \/ \E v \in VolumeInputs : HandleVolumeChange(v)
  \/ ToggleShuffle
  \/ CycleRepeatMode
  \/ \E m \in PlaylistMoods : CreateSmartPlaylist(m)
  \/ \E id \in 0..Len(smartPlaylists) : SetActiveSmartPlaylistId(id)
  \/ OnLoadedMetadata
  \/ \E k \in DOMAIN requests : \E o \in ServiceOutcomes : Respond(k, o)

Spec == Init /\ [][Next]_vars

\* The enrichment pipeline with the catalog changes that drive it.
NextPipeline ==
  \/ \E k \in 0..MaxFiles : HandleFileUpload(k)
  \/ \E i \in -1..MaxTracks : SelectTrack(i)
  \/ OnLoadedMetadata
  \/ \E k \in DOMAIN requests : \E o \in ServiceOutcomes : Respond(k, o)

SpecPipeline == InitWatching({"respond"}) /\ [][NextPipeline]_vars

\* The transport over a view that uploads, insights and filters change.
NextTransport ==
  \/ \E k \in 0..MaxFiles : HandleFileUpload(k)
  \/ \E i \in -1..MaxTracks : SelectTrack(i)
  \/ TogglePlay
  \/ NextTrack
  \/ PrevTrack
  \/ Ended
  \/ CycleRepeatMode
  \/ \E m \in PlaylistMoods : CreateSmartPlaylist(m)
  \/ \E id \in 0..Len(smartPlaylists) : SetActiveSmartPlaylistId(id)
  \/ \E k \in DOMAIN requests : \E o \in ServiceOutcomes : Respond(k, o)

SpecTransport ==
  InitWatching({"playTrack", "togglePlay", "nextTrack", "prevTrack", "ended"})
  /\ [][NextTransport]_vars

\* ================================================= enrichment pipeline
positionOf(id) == CHOOSE i \in DOMAIN tracks : tracks[i].id = id

\* C1: in every reachable state at most one enrichment request to the
\* insight service is outstanding.
C1_AtMostOneOutstanding == Len(requests) <= 1

\* A second request is outstanding, after the first one was answered, while
\* the catalog still holds an unprocessed track.
C1_Witness ==
  /\ Len(requests) = 1
  /\ isInsightLoading
  /\ Len(requestLog) >= 2
  /\ Len(tracks) = 2
  /\ tracks[2].insight = Null

\* C2: no track is requested twice (in particular not after its request
\* failed or returned null).
C2_RequestedAtMostOnce ==
  \A i, j \in DOMAIN requestLog : i # j => requestLog[i] # requestLog[j]

\* C3: once the request has completed (nothing is outstanding any more) the
\* outstanding-request flag is clear.
C3_FlagClearedAfterCompletion == (requests = <<>>) => ~isInsightLoading

\* C4: requests are issued oldest unprocessed track first, one at a time:
\* the log of issued requests follows catalog order and starts with the first
\* track, and while a request for a track is outstanding it is the only one,
\* every older track has been requested and that request has resolved.
C4_OldestFirst ==
  /\ Len(requests) <= 1
  /\ \A k \in 1..(Len(requestLog) - 1) :
       positionOf(requestLog[k]) <= positionOf(requestLog[k + 1])
  /\ requestLog # <<>> => requestLog[1] = tracks[1].id
  /\ \A r \in DOMAIN requests : \A i \in 1..(positionOf(requests[r]) - 1) :
       /\ \E k \in DOMAIN requestLog : requestLog[k] = tracks[i].id
       /\ \A q \in DOMAIN requests : requests[q] # tracks[i].id

\* The request for Y is outstanding after the one for X resolved.
C4_Witness ==
  /\ Len(tracks) = 2
  /\ requestLog = <<tracks[1].id, tracks[2].id>>
  /\ requests = <<tracks[2].id>>
  /\ tracks[1].insight # Null

\* C5: once a track has an insight no step changes or removes it.
C5_InsightWrittenOnce ==
  [][\A i \in DOMAIN tracks :
       tracks[i].insight # Null =>
         i \in DOMAIN tracks' /\ tracks'[i].insight = tracks[i].insight]_vars

\* A later response (for the second track) was applied while the first
\* track already had its insight.
C5_Witness ==
  /\ Len(tracks) = 2
  /\ lastOp = [op |-> "respond", idx |-> tracks[2].id]
  /\ tracks[1].insight # Null
  /\ tracks[2].insight # Null
  /\ tracks[1].insight # tracks[2].insight

\* ============================================================ transport
TransportOps == {"playTrack", "togglePlay", "nextTrack", "prevTrack"}

\* C6: playTrack(i) with i < 0 or i >= displayedTracks.length leaves every
\* field of PlayerState unchanged.
C6_OutOfRangeSelectIsNoOp ==
  [][(/\ lastOp'.op = "playTrack"
      /\ (lastOp'.idx < 0 \/ lastOp'.idx >= Len(displayedTracks)))
     => playerState' = playerState]_vars

\* playTrack ran with an index beyond the end of a non-empty view while
\* another track was selected.
C6_Witness ==
  /\ lastOp.op = "playTrack"
  /\ Len(displayedTracks) > 0
  /\ lastOp.idx >= Len(displayedTracks)
  /\ playerState.currentTrackIndex \in 0..(Len(displayedTracks) - 1)

\* C7: with an empty active view, playTrack, togglePlay, nextTrack and
\* prevTrack leave PlayerState unchanged.
C7_EmptyViewTransportIsNoOp ==
  [][(lastOp'.op \in TransportOps /\ Len(displayedTracks) = 0)
     => playerState' = playerState]_vars

\* C8: currentTrackIndex = -1 implies isPlaying = false.
C8_NoTrackImpliesNotPlaying ==
  playerState.currentTrackIndex = -1 => ~playerState.isPlaying

\* C9: when the ended event fires, the closure that runs holds the
\* currentTrackIndex, repeatMode and view of the state at that moment, and the
\* step is nextTrack applied to them.
C9_EndedUsesLiveState ==
  [][lastOp'.op = "ended" =>
       /\ endedHandler = liveHandler
       /\ playerState' = nextTrack(liveHandler, playerState)]_vars

\* An ended event moved the selection under an active mood filter with
\* repeatMode = all, all of which changed after the first subscription.
C9_Witness ==
  /\ lastOp.op = "ended"
  /\ activeSmartPlaylistId # 0
  /\ playerState.repeatMode = "all"
  /\ Len(displayedTracks) = 2
  /\ lastOp.idx # playerState.currentTrackIndex

\* C10: under repeatMode = all with a non-empty view, nextTrack from the last
\* index selects index 0 and prevTrack from index 0 selects the last index.
C10_RepeatAllWraps ==
  [][/\ (/\ lastOp'.op = "nextTrack"
         /\ playerState.repeatMode = "all"
         /\ Len(displayedTracks) > 0
         /\ playerState.currentTrackIndex = Len(displayedTracks) - 1)
        => playerState'.currentTrackIndex = 0
     /\ (/\ lastOp'.op = "prevTrack"
         /\ playerState.repeatMode = "all"
         /\ Len(displayedTracks) > 0
         /\ playerState.currentTrackIndex = 0)
        => playerState'.currentTrackIndex = Len(displayedTracks) - 1]_vars

\* nextTrack ran on the last index of a view of two tracks under
\* repeatMode = all and index 0 is selected.
C10_Witness ==
  /\ lastOp = [op |-> "nextTrack", idx |-> Len(displayedTracks) - 1]
  /\ Len(displayedTracks) = 2
  /\ playerState.repeatMode = "all"
  /\ playerState.currentTrackIndex = 0


\* Advance, by the next button or by the ended event, over the transport.
SpecAdvance == InitWatching({"nextTrack", "ended"}) /\ [][NextTransport]_vars

\* C11: under repeatMode = one, nextTrack (from the button or from the ended
\* event) never changes currentTrackIndex.
C11_RepeatOneKeepsIndex ==
  [][(lastOp'.op \in {"nextTrack", "ended"} /\ playerState.repeatMode = "one")
     => playerState'.currentTrackIndex = playerState.currentTrackIndex]_vars

\* The ended event fired under repeatMode = one on the first of two tracks,
\* where a sequential advance would have moved on.
C11_Witness ==
  /\ lastOp = [op |-> "ended", idx |-> 0]
  /\ playerState.repeatMode = "one"
  /\ Len(displayedTracks) = 2
  /\ playerState.currentTrackIndex = 0


\* C13: after nextTrack under repeatMode = none on a non-empty view with
\* currentTrackIndex + 1 >= displayedTracks.length, currentTrackIndex is the
\* last valid index, displayedTracks.length - 1.
C13_AdvanceClampsToLastIndex ==
  [][(/\ lastOp'.op = "nextTrack"
      /\ playerState.repeatMode = "none"
      /\ Len(displayedTracks) > 0
      /\ playerState.currentTrackIndex + 1 >= Len(displayedTracks))
     => playerState'.currentTrackIndex = Len(displayedTracks) - 1]_vars


\* ---------------------------------------------------------------------
\* The transport actions with the two latest button presses recorded.
SpecRoundTrip ==
  InitWatching({"nextTrack", "prevTrack", "previous"}) /\ [][NextTransport]_vars

\* C12: nextTrack immediately followed by prevTrack under repeatMode = none,
\* started at an index i with 0 <= i < displayedTracks.length - 1, ends with
\* currentTrackIndex = i again.
C12_AdvanceRetreatRoundTrip ==
  (/\ prevOp.op = "nextTrack"
   /\ lastOp.op = "prevTrack"
   /\ playerState.repeatMode = "none"
   /\ 0 <= prevOp.idx
   /\ prevOp.idx < Len(displayedTracks) - 1)
  => playerState.currentTrackIndex = prevOp.idx

C12_Witness ==
  /\ prevOp = [op |-> "nextTrack", idx |-> 0]
  /\ lastOp = [op |-> "prevTrack", idx |-> 1]
  /\ playerState.repeatMode = "none"
  /\ Len(displayedTracks) = 2
  /\ playerState.currentTrackIndex = 0


\* ---------------------------------------------------------------------
\* The catalog, the enrichment answers and the smart playlists only.
NextFilter ==
  \/ \E k \in 0..MaxFiles : HandleFileUpload(k)
  \/ \E m \in PlaylistMoods : CreateSmartPlaylist(m)
  \/ \E id \in 0..Len(smartPlaylists) : SetActiveSmartPlaylistId(id)
  \/ \E k \in DOMAIN requests : \E o \in ServiceOutcomes : Respond(k, o)

SpecFilter == Init /\ [][NextFilter]_vars

\* The spellings of one mood.
MoodSpellings == {{"Chill", "chill"}, {"Happy", "happy"}}

sameMoodIgnoringCase(a, b) == \E c \in MoodSpellings : a \in c /\ b \in c

\* The view the filter is specified to give.
referenceView ==
  IF activeSmartPlaylistId = 0
       \/ ~\E i \in DOMAIN smartPlaylists : smartPlaylists[i].id = activeSmartPlaylistId
  THEN tracks
  ELSE LET p == smartPlaylists[CHOOSE i \in DOMAIN smartPlaylists :
                                 smartPlaylists[i].id = activeSmartPlaylistId]
           keep(t) == t.insight # Null /\ sameMoodIgnoringCase(t.insight, p.mood)
       IN SelectSeq(tracks, keep)

\* C14: displayedTracks is the whole catalog when no known smart playlist is
\* active, and otherwise the catalog's tracks, in catalog order, whose insight
\* mood is the playlist's mood up to case; tracks without insight are left out.
C14_ViewIsReferenceFilter == displayedTracks = referenceView

C14_Witness ==
  /\ activeSmartPlaylistId # 0
  /\ Len(tracks) = 2
  /\ tracks[1].insight = "chill"
  /\ tracks[2].insight = Null
  /\ \E i \in DOMAIN smartPlaylists :
       smartPlaylists[i].id = activeSmartPlaylistId /\ smartPlaylists[i].mood = "Chill"
  /\ displayedTracks = <<tracks[1]>>


\* ---------------------------------------------------------------------
\* The transport actions with the play/pause button recorded.
SpecToggle == InitWatching({"togglePlay"}) /\ [][NextTransport]_vars

\* C15: togglePlay with currentTrackIndex = -1 and a non-empty view gives the
\* PlayerState that playTrack(0) gives (currentTrackIndex = 0, isPlaying =
\* true, the rest kept); in every other case it negates isPlaying and keeps
\* the rest.
C15_TogglePlaySelectsOrFlips ==
  [][lastOp'.op = "togglePlay" =>
       IF playerState.currentTrackIndex = -1 /\ Len(displayedTracks) > 0
       THEN playerState' = [playerState EXCEPT !.currentTrackIndex = 0, !.isPlaying = TRUE]
       ELSE playerState' = [playerState EXCEPT !.isPlaying = ~playerState.isPlaying]]_vars

C15_Witness ==
  /\ lastOp = [op |-> "togglePlay", idx |-> -1]
  /\ Len(displayedTracks) > 0
  /\ playerState.currentTrackIndex = 0
  /\ playerState.isPlaying


C17_FailedStartClearsIsPlaying ==
  [][(/\ \/ playerState'.isPlaying # playerState.isPlaying
         \/ playerState'.currentTrackIndex # playerState.currentTrackIndex
      /\ currentTrack' # 0
      /\ ~devicePlaying')
     => ~playerState'.isPlaying]_vars


\* ---------------------------------------------------------------------
\* The player controls over an unfiltered catalog.
NextControls ==
  \/ \E k \in 0..MaxFiles : HandleFileUpload(k)
  \/ \E i \in -1..MaxTracks : SelectTrack(i)
  \/ TogglePlay
  \/ NextTrack
  \/ PrevTrack
  \/ \E t \in TimeInputs : HandleSeek(t)
  \/ \E v \in VolumeInputs : HandleVolumeChange(v)
  \/ ToggleShuffle
  \/ CycleRepeatMode

SpecControls ==
  InitWatching({"playTrack", "nextTrack", "prevTrack", "toggleShuffle"})
    /\ [][NextControls]_vars

\* C18: playTrack(i) with 0 <= i < displayedTracks.length sets
\* currentTrackIndex = i and isPlaying = true and keeps volume, currentTime,
\* repeatMode and isShuffle.
C18_SelectTrackFrame ==
  [][(/\ lastOp'.op = "playTrack"
      /\ 0 <= lastOp'.idx
      /\ lastOp'.idx < Len(displayedTracks))
     => /\ playerState'.currentTrackIndex = lastOp'.idx
        /\ playerState'.isPlaying
        /\ playerState'.volume = playerState.volume
        /\ playerState'.currentTime = playerState.currentTime
        /\ playerState'.repeatMode = playerState.repeatMode
        /\ playerState'.isShuffle = playerState.isShuffle]_vars

C18_Witness ==
  /\ lastOp = [op |-> "playTrack", idx |-> 1]
  /\ playerState.currentTrackIndex = 1
  /\ playerState.isPlaying
  /\ playerState.volume = 140
  /\ playerState.currentTime = 1
  /\ playerState.repeatMode = "all"
  /\ playerState.isShuffle

\* The PlayerState with the shuffle flag negated.
shuffleTwin(ps) == [ps EXCEPT !.isShuffle = ~ps.isShuffle]

\* C19: nextTrack and prevTrack give the same currentTrackIndex and isPlaying
\* as they give from the state that differs in isShuffle only, and the
\* shuffle button changes isShuffle and nothing else.
C19_ShuffleDoesNotSteer ==
  [][/\ lastOp'.op = "nextTrack" =>
          LET twin == nextTrack(liveHandler, shuffleTwin(playerState))
          IN /\ twin.currentTrackIndex = playerState'.currentTrackIndex
             /\ twin.isPlaying = playerState'.isPlaying
     /\ lastOp'.op = "prevTrack" =>
          LET twin == prevTrack(liveHandler, shuffleTwin(playerState))
          IN /\ twin.currentTrackIndex = playerState'.currentTrackIndex
             /\ twin.isPlaying = playerState'.isPlaying
     /\ lastOp'.op = "toggleShuffle" =>
          /\ playerState' = shuffleTwin(playerState)
          /\ UNCHANGED <<tracks, smartPlaylists, activeSmartPlaylistId>>]_vars

C19_Witness ==
  /\ lastOp = [op |-> "prevTrack", idx |-> 1]
  /\ playerState.isShuffle
  /\ playerState.currentTrackIndex = 0
  /\ Len(displayedTracks) = 2


\* ---------------------------------------------------------------------
\* The transport actions with the upload recorded.
SpecUpload == InitWatching({"handleFileUpload"}) /\ [][NextTransport]_vars

\* C20: an upload of at least one file into an empty catalog, no smart
\* playlist active, ends with currentTrackIndex = 0 and isPlaying = true.
C20_FirstUploadSelectsFirstTrack ==
  [][(/\ lastOp'.op = "handleFileUpload"
      /\ lastOp'.idx >= 1
      /\ Len(tracks) = 0
      /\ activeSmartPlaylistId = 0)
     => /\ playerState'.currentTrackIndex = 0
        /\ playerState'.isPlaying]_vars


\* ---------------------------------------------------------------------
\* The catalog and its enrichment with the two latest steps recorded.
SpecInFlight ==
  InitWatching({"respond", "handleFileUpload", "previous"}) /\ [][NextPipeline]_vars

\* C21: an answer of the insight service leaves the catalog as it is at that
\* moment, tracks appended and durations filled in since the request
\* included, except for the insight of the requested track.
C21_ResponseWritesInsightOnly ==
  [][lastOp'.op = "respond" =>
       /\ Len(tracks') = Len(tracks)
       /\ \A i \in DOMAIN tracks :
            /\ tracks'[i].id = tracks[i].id
            /\ tracks'[i].duration = tracks[i].duration
            /\ tracks[i].id # lastOp'.idx => tracks'[i].insight = tracks[i].insight]_vars

\* Track 1 was requested at its upload, got its duration and a second track
\* behind it while the request was in flight, and has now been answered.
C21_Witness ==
  /\ prevOp = [op |-> "handleFileUpload", idx |-> 1]
  /\ lastOp = [op |-> "respond", idx |-> 1]
  /\ Len(tracks) = 2
  /\ tracks[1] = [id |-> 1, insight |-> "chill", duration |-> MetadataDuration]
  /\ tracks[2] = [id |-> 2, insight |-> Null, duration |-> 0]


\* C22: a step that changes neither PlayerState nor the smart playlists nor
\* the active one (an insight answer, an upload that selects nothing, a
\* duration) leaves the current track the same.
C22_CurrentTrackKeptByCatalogChanges ==
  [][(/\ playerState' = playerState
      /\ smartPlaylists' = smartPlaylists
      /\ activeSmartPlaylistId' = activeSmartPlaylistId)
     => currentTrack' = currentTrack]_vars


\* ---------------------------------------------------------------------
\* The transport actions on a device whose play() always starts.
SpecPlayStarts == InitWatching({"playStarts"}) /\ [][NextTransport]_vars

\* C23: on a device whose play() always starts, with a current track loaded,
\* the device is playing exactly when isPlaying is true.
C23_DevicePlayingIffIsPlaying ==
  currentTrack # 0 => (devicePlaying <=> playerState.isPlaying)


\* ---------------------------------------------------------------------
\* The catalog and its enrichment by a service that answers every request
\* with an insight, and does answer: the awaited promise settles, so an
\* outstanding request is not left waiting for ever.
AnswerWithInsight ==
  \E k \in DOMAIN requests : \E o \in ServiceMoods : Respond(k, o)

NextAnswered ==
  \/ \E k \in 0..MaxFiles : HandleFileUpload(k)
  \/ \E i \in -1..MaxTracks : SelectTrack(i)
  \/ OnLoadedMetadata
  \/ AnswerWithInsight

SpecAnswered == Init /\ [][NextAnswered]_vars /\ WF_vars(AnswerWithInsight)

allEnriched ==
  /\ \A i \in DOMAIN tracks : tracks[i].insight # Null
  /\ requests = <<>>

\* C24: with every request answered by an insight, and uploads ending (the
\* catalog is bounded), from some point on every track has an insight and no
\* request is outstanding.
C24_EventuallyAllEnriched == <>[]allEnriched

C24_Witness ==
  /\ Len(tracks) = MaxTracks
  /\ allEnriched
  /\ ~isInsightLoading

====
